---- MODULE Spec2Model ----
(***************************************************************************)
(* slogx: a structured-logging middleware with an atomically swappable     *)
(* configuration snapshot, a caching dynamic handler, an attribute         *)
(* transformation pipeline and a masking engine.                           *)
(*                                                                         *)
(* Strings are sequences of one-character strings (Go strings of ASCII     *)
(* bytes).  A Go expression that may panic evaluates to a result record    *)
(* [ok, s]: ok = FALSE is the panic.                                       *)
(***************************************************************************)
EXTENDS Integers, Sequences, FiniteSets, TLC

VARIABLES
    maskCall,   \* one call of DefaultMasker.Mask: input, category, result
    attrCall,   \* one call of the closure getReplaceAttr returns
    cfgs,       \* heap of Config structs, by address (index)
    maskMaps,   \* heap of MaskMap objects
    removeMaps, \* heap of RemoveMap objects
    nameMaps,   \* heap of LevelNames objects
    arrays,     \* heap of backing arrays of []string slices (Len = capacity)
    cfgPtr,     \* the atomic.Pointer[Config] cells, by address
    loggers,    \* heap of Logger / DynamicHandler pairs
    sinks,      \* per io.Writer: whether a line was written that its reader has not taken
    threads,    \* per goroutine: position in its current call and its locals
    published,  \* history: per stored Config address, its values when stored
    lastStore   \* history: the latest cfgPtr.Store of an UpdateConfig

heapVars == <<cfgs, maskMaps, removeMaps, nameMaps, arrays>>
pureVars == <<maskCall, attrCall>>
mainVars == <<heapVars, cfgPtr, loggers, sinks, threads, published, lastStore>>
vars == <<maskCall, attrCall, cfgs, maskMaps, removeMaps, nameMaps, arrays,
          cfgPtr, loggers, sinks, threads, published, lastStore>>

-----------------------------------------------------------------------------
(* Bounds *)

\* longest enumerated masking input over Alphabet
MaxLen == 4
\* most non-space characters of an enumerated phone or card input
MaxDigits == 13
\* backing arrays allocated per behaviour of the Config specification (Clone
\* allocates one, an append beyond the capacity allocates one)
MaxArrays == 3
\* heap objects per behaviour: Configs (New and each UpdateConfig allocate
\* one) and Loggers (New and each With / WithGroup allocate one)
MaxObjects == 4

-----------------------------------------------------------------------------
(* Go string primitives *)

Alphabet == {"a", "b", "@"}

RECURSIVE StringsUpTo(_)
StringsUpTo(n) ==
    IF n = 0 THEN {<<>>}
    ELSE LET shorter == StringsUpTo(n - 1)
         IN  shorter \cup {Append(s, c) : s \in {x \in shorter : Len(x) = n - 1}, c \in Alphabet}

Ok(s) == [ok |-> TRUE, s |-> s]
Panic == [ok |-> FALSE, s |-> <<>>]

\* s[lo:hi]; Go panics unless 0 <= lo <= hi <= len(s)
GoSlice(s, lo, hi) ==
    IF 0 <= lo /\ lo <= hi /\ hi <= Len(s)
    THEN Ok(SubSeq(s, lo + 1, hi))
    ELSE Panic

\* a + b, evaluated left to right; a panic in an operand propagates
Cat(a, b) == IF a.ok /\ b.ok THEN Ok(a.s \o b.s) ELSE Panic

\* strings.Split(s, sep) for a one-character separator
RECURSIVE GoSplit(_, _)
GoSplit(s, sep) ==
    IF \A i \in 1..Len(s) : s[i] # sep THEN <<s>>
    ELSE LET i == CHOOSE j \in 1..Len(s) : s[j] = sep /\ \A m \in 1..(j - 1) : s[m] # sep
         IN  <<SubSeq(s, 1, i - 1)>> \o GoSplit(SubSeq(s, i + 1, Len(s)), sep)

\* strings.ReplaceAll(s, old, "") for a one-character old
RECURSIVE GoRemoveAll(_, _)
GoRemoveAll(s, old) ==
    IF s = <<>> THEN <<>>
    ELSE IF Head(s) = old THEN GoRemoveAll(Tail(s), old)
    ELSE <<Head(s)>> \o GoRemoveAll(Tail(s), old)

-----------------------------------------------------------------------------
(* Masking engine *)

MaskDefault == "MaskDefault"
MaskEmail   == "MaskEmail"
MaskPhone   == "MaskPhone"
MaskCard    == "MaskCard"
MaskSecret  == "MaskSecret"
MaskTypes   == {MaskDefault, MaskEmail, MaskPhone, MaskCard, MaskSecret}

Stars3       == <<"*", "*", "*">>
Stars7       == <<"*", "*", "*", "*", "*", "*", "*">>
EmailFallback == <<"*", "*", "*", "@", "*", "*", "*">>
PhoneFallback == Stars3
CardFallback  == <<"*", "*", "*", "*", " ", "*", "*", "*", "*", " ", "*", "*", "*", "*">>
CardMiddle    == <<" ", "*", "*", "*", "*", " ", "*", "*", "*", "*", " ">>
TagMasked     == <<"[", "M", "A", "S", "K", "E", "D", "]">>
TagSecret     == <<"[", "S", "E", "C", "R", "E", "T", "]">>

maskEmailShortUser(user, domain) ==
    Cat(GoSlice(user, 0, 1), Ok(Stars3 \o <<"@">> \o domain))

maskEmail(s) ==
    LET parts == GoSplit(s, "@")
    IN  IF Len(parts) # 2 THEN Ok(EmailFallback)
        ELSE LET user   == parts[1]
                 domain == parts[2]
             IN  IF Len(user) <= 2
                 THEN maskEmailShortUser(user, domain)
                 ELSE Cat(Cat(GoSlice(user, 0, 2), Ok(Stars3)),
                          Cat(GoSlice(user, Len(user) - 1, Len(user)),
                              Ok(<<"@">> \o domain)))

\* (the length test off by one)
maskPhoneFrom9(s) ==
    IF Len(s) <= 8 THEN Ok(PhoneFallback)
    ELSE Cat(Cat(GoSlice(s, 0, 4), Ok(Stars7)), GoSlice(s, Len(s) - 3, Len(s)))

maskPhone(s) ==
    IF Len(s) < 8 THEN Ok(PhoneFallback)
    ELSE Cat(Cat(GoSlice(s, 0, 4), Ok(Stars7)), GoSlice(s, Len(s) - 3, Len(s)))

\* (the masking without the removal of the spaces)
maskCardKeepSpaces(s0) ==
    IF Len(s0) < 12 THEN Ok(CardFallback)
    ELSE Cat(Cat(GoSlice(s0, 0, 4), Ok(CardMiddle)), GoSlice(s0, Len(s0) - 4, Len(s0)))

maskCard(s0) ==
    LET s == GoRemoveAll(s0, " ")
    IN  IF Len(s) < 12 THEN Ok(CardFallback)
        ELSE Cat(Cat(GoSlice(s, 0, 4), Ok(CardMiddle)), GoSlice(s, Len(s) - 4, Len(s)))

\* DefaultMasker.Mask on the textual form valStr of the value
Mask(valStr, mType) ==
    CASE mType = MaskEmail  -> maskEmail(valStr)
      [] mType = MaskPhone  -> maskPhone(valStr)
      [] mType = MaskCard   -> maskCard(valStr)
      [] mType = MaskSecret -> Ok(TagSecret)
      [] OTHER              -> Ok(TagMasked)

-----------------------------------------------------------------------------
(* Specification of the masking engine: one Mask call per behaviour *)

ExAntonioh == <<"a","n","t","o","n","i","o","h","@","g","m","a","i","l",".","c","o","m">>
ExYaRu     == <<"a","@","y","a",".","r","u">>
ExPhone    == <<"+","7"," ","9","1","1"," ","2","2","2"," ","3","4","5","6">>
ExCard     == <<"4","2","7","6","1","2","3","4","5","6","7","8","0","0","0","0">>

\* phone and card inputs: n characters that tell their positions apart, with
\* spaces put after some of the first 0, 4, 8 and 12 of them
DigitSymbols == <<"0", "1", "2", "3", "4", "5", "6", "7", "8", "9", "A", "B", "C", "D", "E", "F">>
SpaceGaps == {0, 4, 8, 12}
RECURSIVE Spaced(_, _)
Spaced(n, gaps) ==
    IF n = 0 THEN (IF 0 \in gaps THEN <<" ">> ELSE <<>>)
    ELSE Spaced(n - 1, gaps) \o <<DigitSymbols[n]>> \o (IF n \in gaps THEN <<" ">> ELSE <<>>)
LongInputs == {Spaced(n, gaps) : n \in 0..MaxDigits, gaps \in SUBSET SpaceGaps}

MaskInputs == StringsUpTo(MaxLen) \cup LongInputs \cup {ExAntonioh, ExYaRu, ExPhone, ExCard}

NoResult == [ok |-> TRUE, s |-> <<"?">>]

NoAttrCall == [pc |-> "none"]

\* no logger has been constructed: the functions below are called on their own
NoLogger ==
    /\ cfgs = <<>> /\ maskMaps = <<>> /\ removeMaps = <<>> /\ nameMaps = <<>>
    /\ arrays = <<>> /\ cfgPtr = <<>> /\ loggers = <<>> /\ sinks = <<>>
    /\ threads = <<>> /\ published = <<>>
    /\ lastStore = [cfg |-> 0, old |-> 0, mut |-> <<>>]

InitMask ==
    /\ NoLogger
    /\ attrCall = NoAttrCall
    /\ maskCall \in [in : MaskInputs, mType : MaskTypes, pc : {"call"}, out : {NoResult}]

MaskReturn ==
    /\ maskCall.pc = "call"
    /\ Mask(maskCall.in, maskCall.mType).ok
    /\ maskCall' = [maskCall EXCEPT !.pc = "returned",
                                    !.out = Mask(maskCall.in, maskCall.mType)]
    /\ UNCHANGED <<attrCall, mainVars>>

MaskPanic ==
    /\ maskCall.pc = "call"
    /\ ~Mask(maskCall.in, maskCall.mType).ok
    /\ maskCall' = [maskCall EXCEPT !.pc = "panicked", !.out = Panic]
    /\ UNCHANGED <<attrCall, mainVars>>

NextMask == MaskReturn \/ MaskPanic

SpecMask == InitMask /\ [][NextMask]_vars

-----------------------------------------------------------------------------
(* Severity levels and their names *)

LevelTrace == -8
LevelDebug == -4
LevelInfo  == 0
LevelWarn  == 4
LevelError == 8
LevelFatal == 12

Levels == {LevelTrace, LevelDebug, LevelInfo, LevelWarn, LevelError, LevelFatal}

Digits == <<"0", "1", "2", "3", "4", "5", "6", "7", "8", "9">>

\* fmt.Sprintf("%s%+d", base, val) for |val| < 10; base alone when val = 0
LevelStr(base, val) ==
    IF val = 0 THEN base
    ELSE IF val > 0 THEN base \o <<"+", Digits[val + 1]>>
    ELSE base \o <<"-", Digits[(0 - val) + 1]>>

\* slog.Level.String()
LevelString(l) ==
    IF l < LevelInfo THEN LevelStr(<<"D", "E", "B", "U", "G">>, l - LevelDebug)
    ELSE IF l < LevelWarn THEN LevelStr(<<"I", "N", "F", "O">>, l - LevelInfo)
    ELSE IF l < LevelError THEN LevelStr(<<"W", "A", "R", "N">>, l - LevelWarn)
    ELSE LevelStr(<<"E", "R", "R", "O", "R">>, l - LevelError)

\* strings.ToUpper, on the characters the model uses
UpperChar(c) ==
    CASE c = "a" -> "A"
      [] c = "b" -> "B"
      [] c = "c" -> "C"
      [] c = "d" -> "D"
      [] c = "v" -> "V"
      [] OTHER   -> c

ToUpper(s) == [i \in 1..Len(s) |-> UpperChar(s[i])]

defaultLevelNames ==
    (LevelTrace :> <<"T", "R", "A", "C", "E">>) @@
    (LevelDebug :> <<"D", "E", "B", "U", "G">>) @@
    (LevelInfo  :> <<"I", "N", "F", "O">>) @@
    (LevelWarn  :> <<"W", "A", "R", "N">>) @@
    (LevelError :> <<"E", "R", "R", "O", "R">>) @@
    (LevelFatal :> <<"F", "A", "T", "A", "L">>)

getLevelName(l, customNames) ==
    IF l \in DOMAIN customNames THEN customNames[l] ELSE ToUpper(LevelString(l))

-----------------------------------------------------------------------------
(* Attributes and the attribute transformation *)

\* slog.Value: a string, a slog.Level, or the result of a Mask call that panicked
StrV(s)   == [kind |-> "str", s |-> s, lvl |-> 0, members |-> <<>>]
LevelV(l) == [kind |-> "level", s |-> <<>>, lvl |-> l, members |-> <<>>]
PanicV    == [kind |-> "panic", s |-> <<>>, lvl |-> 0, members |-> <<>>]
\* slog.GroupValue(members...): a value that is itself a list of attributes
GroupV(m) == [kind |-> "group", s |-> <<>>, lvl |-> 0, members |-> m]

Attr(k, v) == [key |-> k, val |-> v]
EmptyAttr  == Attr("", StrV(<<>>))

LevelKey   == "level"
MessageKey == "msg"
TimeKey    == "time"

\* fmt.Sprintf("%v", value)
Sprintf(v) == IF v.kind = "level" THEN LevelString(v.lvl) ELSE v.s

\* slog.AnyValue(cfg.Masker.Mask(a.Value.Any(), mType))
MaskValue(v, mType) ==
    LET r == Mask(Sprintf(v), mType)
    IN  IF r.ok THEN StrV(r.s) ELSE PanicV

\* (the transformation with the masking check moved before the removal check)
ReplaceAttrMaskFirst(removeKeys, maskKeys, levelNames, a) ==
    IF a.key \in DOMAIN maskKeys
    THEN [a EXCEPT !.val = MaskValue(a.val, maskKeys[a.key])]
    ELSE IF a.key \in removeKeys THEN EmptyAttr
    ELSE IF a.key = LevelKey /\ a.val.kind = "level"
    THEN [a EXCEPT !.val = StrV(getLevelName(a.val.lvl, levelNames))]
    ELSE a

\* The closure of getReplaceAttr over the removal set, masking map and level
\* names of one configuration, applied to attribute a.
ReplaceAttr(removeKeys, maskKeys, levelNames, a) ==
    IF a.key \in removeKeys THEN EmptyAttr
    ELSE IF a.key \in DOMAIN maskKeys
    THEN [a EXCEPT !.val = MaskValue(a.val, maskKeys[a.key])]
    ELSE IF a.key = LevelKey /\ a.val.kind = "level"
    THEN [a EXCEPT !.val = StrV(getLevelName(a.val.lvl, levelNames))]
    ELSE a

-----------------------------------------------------------------------------
(* Specification of the attribute transformation: one call per behaviour *)

SAtB == <<"a", "@", "b">>
SInf == <<"I", "N", "F">>

AttrKeys      == {"k", LevelKey, MessageKey}
AttrValues    == {StrV(SAtB), LevelV(LevelInfo), LevelV(LevelTrace), LevelV(6)}
AttrRemovals  == SUBSET {"k", LevelKey}
AttrMaskMaps  == {<<>>, "k" :> MaskEmail, LevelKey :> MaskSecret,
                  ("k" :> MaskDefault) @@ (LevelKey :> MaskEmail)}
AttrNameMaps  == {<<>>, defaultLevelNames, (LevelInfo :> SInf) @@ defaultLevelNames}

InitAttr ==
    /\ NoLogger
    /\ maskCall = [in |-> <<>>, mType |-> MaskDefault, pc |-> "none", out |-> NoResult]
    /\ attrCall \in [pc : {"call"}, removeKeys : AttrRemovals, maskKeys : AttrMaskMaps,
                       levelNames : AttrNameMaps, a : {Attr(k, v) : k \in AttrKeys, v \in AttrValues},
                       out : {EmptyAttr}]

AttrReturn ==
    /\ attrCall.pc = "call"
    /\ attrCall' = [attrCall EXCEPT
           !.pc = "returned",
           !.out = ReplaceAttr(attrCall.removeKeys, attrCall.maskKeys,
                               attrCall.levelNames, attrCall.a)]
    /\ UNCHANGED <<maskCall, mainVars>>

NextAttr == AttrReturn

SpecAttr == InitAttr /\ [][NextAttr]_vars

-----------------------------------------------------------------------------
(* Configuration snapshot: Config structs and their containers on a heap *)

FormatText == "FormatText"
FormatJSON == "FormatJSON"

Writers == {"w1", "w2"}

\* The heap as one value: operators on the heap take it and return the new one.
Heap == [cfgs |-> cfgs, maskMaps |-> maskMaps, removeMaps |-> removeMaps,
         nameMaps |-> nameMaps, arrays |-> arrays]

SetHeap(H) ==
    /\ cfgs' = H.cfgs
    /\ maskMaps' = H.maskMaps
    /\ removeMaps' = H.removeMaps
    /\ nameMaps' = H.nameMaps
    /\ arrays' = H.arrays

\* A []string value: backing array address (0: nil) and length
NilSlice == [arr |-> 0, len |-> 0]
SliceElems(H, sl) == IF sl.arr = 0 THEN <<>> ELSE SubSeq(H.arrays[sl.arr], 1, sl.len)
SliceCap(H, sl) == IF sl.arr = 0 THEN 0 ELSE Len(H.arrays[sl.arr])

\* (a clone that copies the maps and shares the slice's backing array)
CloneSharedSlice(H, c) ==
    LET old == H.cfgs[c]
        new == [old EXCEPT
                   !.MaskKeys = Len(H.maskMaps) + 1,
                   !.RemoveKeys = Len(H.removeMaps) + 1,
                   !.LevelNames = Len(H.nameMaps) + 1]
    IN  [cfgs       |-> Append(H.cfgs, new),
         maskMaps   |-> Append(H.maskMaps, H.maskMaps[old.MaskKeys]),
         removeMaps |-> Append(H.removeMaps, H.removeMaps[old.RemoveKeys]),
         nameMaps   |-> Append(H.nameMaps, H.nameMaps[old.LevelNames]),
         arrays     |-> H.arrays]

\* (a clone that copies the struct and shares its maps and its slice)
CloneShallow(H, c) == [H EXCEPT !.cfgs = Append(@, H.cfgs[c])]

\* The heap after Config.Clone of the Config at address c; the clone is the
\* last Config of the new heap.
Clone(H, c) ==
    LET old == H.cfgs[c]
        new == [old EXCEPT
                   !.MaskKeys = Len(H.maskMaps) + 1,
                   !.RemoveKeys = Len(H.removeMaps) + 1,
                   !.LevelNames = Len(H.nameMaps) + 1,
                   !.ContextKeys = [arr |-> Len(H.arrays) + 1, len |-> old.ContextKeys.len]]
    IN  [cfgs       |-> Append(H.cfgs, new),
         maskMaps   |-> Append(H.maskMaps, H.maskMaps[old.MaskKeys]),
         removeMaps |-> Append(H.removeMaps, H.removeMaps[old.RemoveKeys]),
         nameMaps   |-> Append(H.nameMaps, H.nameMaps[old.LevelNames]),
         arrays     |-> Append(H.arrays, SliceElems(H, old.ContextKeys))]

\* The values a Config holds, containers dereferenced
ConfigValue(H, c) ==
    [Level       |-> H.cfgs[c].Level,
     Format      |-> H.cfgs[c].Format,
     Output      |-> H.cfgs[c].Output,
     MaskKeys    |-> H.maskMaps[H.cfgs[c].MaskKeys],
     RemoveKeys  |-> H.removeMaps[H.cfgs[c].RemoveKeys],
     LevelNames  |-> H.nameMaps[H.cfgs[c].LevelNames],
     ContextKeys |-> SliceElems(H, H.cfgs[c].ContextKeys)]

\* One statement of a mutator function passed to UpdateConfig
OpLevel(l)        == [op |-> "Level", lvl |-> l, k |-> "", x |-> "", name |-> <<>>, idx |-> 0]
OpFormat(f)       == [op |-> "Format", lvl |-> 0, k |-> "", x |-> f, name |-> <<>>, idx |-> 0]
OpOutput(w)       == [op |-> "Output", lvl |-> 0, k |-> "", x |-> w, name |-> <<>>, idx |-> 0]
OpRemove(k)       == [op |-> "Remove", lvl |-> 0, k |-> k, x |-> "", name |-> <<>>, idx |-> 0]
OpMask(k, t)      == [op |-> "Mask", lvl |-> 0, k |-> k, x |-> t, name |-> <<>>, idx |-> 0]
OpLevelName(l, n) == [op |-> "LevelName", lvl |-> l, k |-> "", x |-> "", name |-> n, idx |-> 0]
OpContextKey(k)   == [op |-> "ContextKey", lvl |-> 0, k |-> k, x |-> "", name |-> <<>>, idx |-> 0]
\* delete(c.MaskKeys, k), delete(c.RemoveKeys, k), delete(c.LevelNames, l), c.ContextKeys[i] = k
OpDeleteMask(k)   == [op |-> "DeleteMask", lvl |-> 0, k |-> k, x |-> "", name |-> <<>>, idx |-> 0]
OpDeleteRemove(k) == [op |-> "DeleteRemove", lvl |-> 0, k |-> k, x |-> "", name |-> <<>>, idx |-> 0]
OpDeleteLevelName(l) == [op |-> "DeleteLevelName", lvl |-> l, k |-> "", x |-> "", name |-> <<>>, idx |-> 0]
OpSetContextKey(i, k) == [op |-> "SetContextKey", lvl |-> 0, k |-> k, x |-> "", name |-> <<>>, idx |-> i]

\* append(sl, k): in place when capacity allows, else into a new backing array
\* of doubled capacity
GoAppend(H, sl, k) ==
    IF sl.len < SliceCap(H, sl)
    THEN [heap  |-> [H EXCEPT !.arrays[sl.arr][sl.len + 1] = k],
          slice |-> [sl EXCEPT !.len = @ + 1]]
    ELSE LET cap  == IF SliceCap(H, sl) = 0 THEN 1 ELSE 2 * SliceCap(H, sl)
             data == [i \in 1..cap |-> IF i <= sl.len THEN H.arrays[sl.arr][i]
                                       ELSE IF i = sl.len + 1 THEN k ELSE ""]
         IN  [heap  |-> [H EXCEPT !.arrays = Append(@, data)],
              slice |-> [arr |-> Len(H.arrays) + 1, len |-> sl.len + 1]]

\* The heap after the statement op has run on the Config at address c
ApplyOp(H, c, o) ==
    CASE o.op = "Level"  -> [H EXCEPT !.cfgs[c].Level = o.lvl]
      [] o.op = "Format" -> [H EXCEPT !.cfgs[c].Format = o.x]
      [] o.op = "Output" -> [H EXCEPT !.cfgs[c].Output = o.x]
      [] o.op = "Remove" -> [H EXCEPT !.removeMaps[H.cfgs[c].RemoveKeys] = @ \cup {o.k}]
      [] o.op = "Mask"   ->
            [H EXCEPT !.maskMaps[H.cfgs[c].MaskKeys] =
                [key \in (DOMAIN @) \cup {o.k} |-> IF key = o.k THEN o.x ELSE @[key]]]
      [] o.op = "LevelName" ->
            [H EXCEPT !.nameMaps[H.cfgs[c].LevelNames] =
                [l \in (DOMAIN @) \cup {o.lvl} |-> IF l = o.lvl THEN o.name ELSE @[l]]]
      [] o.op = "ContextKey" ->
            LET r == GoAppend(H, H.cfgs[c].ContextKeys, o.k)
            IN  [r.heap EXCEPT !.cfgs[c].ContextKeys = r.slice]
      [] o.op = "DeleteMask" ->
            [H EXCEPT !.maskMaps[H.cfgs[c].MaskKeys] = [key \in (DOMAIN @) \ {o.k} |-> @[key]]]
      [] o.op = "DeleteRemove" ->
            [H EXCEPT !.removeMaps[H.cfgs[c].RemoveKeys] = @ \ {o.k}]
      [] o.op = "DeleteLevelName" ->
            [H EXCEPT !.nameMaps[H.cfgs[c].LevelNames] = [l \in (DOMAIN @) \ {o.lvl} |-> @[l]]]
      [] o.op = "SetContextKey" ->
            [H EXCEPT !.arrays[H.cfgs[c].ContextKeys.arr][o.idx] = o.k]

-----------------------------------------------------------------------------
(* The formatter chain (slog JSON/Text handler with bound attributes) *)

\* One emitted field: the groups it is nested under, its key and its value
Field(path, a) == [path |-> path, key |-> a.key, val |-> a.val]

\* The ReplaceAttr closure built by getReplaceAttr(cfg): it keeps the pointer
\* and reads the Config's maps when it is called.
getReplaceAttr(H, c, a) ==
    ReplaceAttr(H.removeMaps[H.cfgs[c].RemoveKeys], H.maskMaps[H.cfgs[c].MaskKeys],
                H.nameMaps[H.cfgs[c].LevelNames], a)

\* attrs as the handler formats them under path: each non-group attribute
\* goes through ReplaceAttr and one replaced by the zero Attr is dropped; a
\* group-valued attribute is not passed to ReplaceAttr, its key opens a group
\* and its members are formatted under it
RECURSIVE FormatAttrs(_, _, _, _)
FormatAttrs(H, c, path, attrs) ==
    IF attrs = <<>> THEN <<>>
    ELSE LET h == Head(attrs)
             a == getReplaceAttr(H, c, h)
         IN  (IF h.val.kind = "group"
              THEN FormatAttrs(H, c, IF h.key = "" THEN path ELSE Append(path, h.key),
                               h.val.members)
              ELSE IF a = EmptyAttr THEN <<>> ELSE <<Field(path, a)>>)
             \o FormatAttrs(H, c, path, Tail(attrs))

\* slog.NewJSONHandler / slog.NewTextHandler(cfg.Output, hOpts)
NewHandler(H, c) ==
    [cfg |-> c, format |-> H.cfgs[c].Format, output |-> H.cfgs[c].Output,
     level |-> H.cfgs[c].Level, pre |-> <<>>, groups |-> <<>>]

\* base.WithAttrs(attrs): the attributes are formatted now, under the open groups
ChainWithAttrs(H, ch, attrs) ==
    [ch EXCEPT !.pre = @ \o FormatAttrs(H, ch.cfg, ch.groups, attrs)]

\* base.WithGroup(g)
ChainWithGroup(ch, g) == [ch EXCEPT !.groups = Append(@, g)]

RECURSIVE ChainWithGroups(_, _)
ChainWithGroups(ch, gs) ==
    IF gs = <<>> THEN ch ELSE ChainWithGroups(ChainWithGroup(ch, Head(gs)), Tail(gs))

TimeValue == StrV(<<"T">>)

\* base.Handle(ctx, r): built-in fields, then the bound attributes, then the
\* record's own attributes under the open groups
ChainHandle(H, ch, lvl, msg, attrs) ==
    [format |-> ch.format,
     fields |-> FormatAttrs(H, ch.cfg, <<>>,
                    <<Attr(TimeKey, TimeValue), Attr(LevelKey, LevelV(lvl)),
                      Attr(MessageKey, StrV(msg))>>)
                \o ch.pre
                \o FormatAttrs(H, ch.cfg, ch.groups, attrs)]

\* The static chain of handler h for the Config at address c (the slow path
\* of getOrBuildCachedHandler)
BuildChain(H, h, c) ==
    LET base == NewHandler(H, c)
        withAttrs == IF Len(h.attrs) > 0 THEN ChainWithAttrs(H, base, h.attrs) ELSE base
    IN  ChainWithGroups(withAttrs, h.groups)

\* Handle step 1: the context-derived attributes, in the order of cfg.ContextKeys
RECURSIVE ContextAttrs(_, _)
ContextAttrs(keys, ctx) ==
    IF keys = <<>> THEN <<>>
    ELSE (IF Head(keys) \in DOMAIN ctx THEN <<Attr(Head(keys), ctx[Head(keys)])>> ELSE <<>>)
         \o ContextAttrs(Tail(keys), ctx)

\* Handle of the handler without a cache (handler.go): the context-derived
\* attributes are added to the record, after the record's own; the chain is
\* built from the loaded Config on every call
HandleUncached(H, h, c, lvl, msg, ctx, args) ==
    LET r == args \o ContextAttrs(SliceElems(H, H.cfgs[c].ContextKeys), ctx)
    IN  ChainHandle(H, BuildChain(H, h, c), lvl, msg, r)

\* A line is lost when a Mask call panicked while it was formatted
Panicked(line) == \E i \in 1..Len(line.fields) : line.fields[i].val.kind = "panic"

-----------------------------------------------------------------------------
(* Inputs *)

Threads    == {"t1", "t2"}
SeqThreads == {"t1"}

ValB == StrV(<<"b">>)
ValC == StrV(<<"c">>)
ValD == StrV(<<"d">>)

\* call contexts: none of the keys, or key k
CtxNone == <<>>
CtxK    == "k" :> ValC
\* severities of log calls
LogLevels == {LevelDebug, LevelWarn}
\* the message and the fields given to a log call
LogMessage == <<"m">>
ArgPlain   == <<Attr("k", ValD)>>
\* a value with '@' and nothing before it
ArgNoLocal == <<Attr("k", StrV(<<"@", "b">>))>>
\* slog.Group("k", slog.String("x", "d"))
ArgGroup   == <<Attr("k", GroupV(<<Attr("x", ValD)>>))>>
\* the context and fields of the log calls of one goroutine
LogInputs ==
    {[ctx |-> CtxK, args |-> ArgPlain], [ctx |-> CtxNone, args |-> ArgPlain],
     [ctx |-> CtxK, args |-> ArgNoLocal], [ctx |-> CtxNone, args |-> ArgGroup]}
\* of each goroutine of the concurrent runs
ConcLogInputs ==
    ("t1" :> {[ctx |-> CtxK, args |-> ArgPlain]}) @@ ("t2" :> {[ctx |-> CtxNone, args |-> ArgPlain]})
\* With(...) arguments and WithGroup names
WithArgs  == {<<Attr("k", ValB)>>}
GroupNames == {"g"}

\* mutator functions given to UpdateConfig, as statement sequences
MutRaise   == <<OpLevel(LevelError)>>
MutJSON    == <<OpFormat(FormatJSON), OpLevel(LevelDebug)>>
MutRemove  == <<OpRemove("k")>>
MutRedact  == <<OpMask("k", MaskEmail), OpLevelName(LevelWarn, <<"W">>), OpOutput("w2")>>
Mutators     == {MutRaise, MutJSON, MutRemove, MutRedact}
ConcMutators == {MutJSON, MutRemove}

\* option sets given to New
InitialConfigs ==
    [Level : {LevelInfo}, Format : {FormatText}, Output : {"w1"},
     MaskKeys : {<<>>}, RemoveKeys : {{}, {"k"}}, LevelNames : {defaultLevelNames},
     ContextKeys : {<<"k">>}]
ConcInitialConfigs == {v \in InitialConfigs : v.RemoveKeys = {}}

-----------------------------------------------------------------------------
(* State after New(opts...) *)

NoPureCalls ==
    /\ maskCall = [in |-> <<>>, mType |-> MaskDefault, pc |-> "none", out |-> NoResult]
    /\ attrCall = NoAttrCall

IdleThread ==
    [pc |-> "idle", op |-> "none", l |-> 0, lvl |-> 0, ctx |-> <<>>, args |-> <<>>,
     enabledCfg |-> 0, cfg |-> 0, ctxAttrs |-> <<>>, base |-> <<>>, hit |-> FALSE,
     oldCfg |-> 0, newCfg |-> 0, mut |-> <<>>, todo |-> <<>>, status |-> 0]

\* the argument of os.Exit in FatalContext
ExitCode == 1

\* the handler New creates: no bound attributes, empty cache
RootLogger ==
    [cfgPtr |-> 1, cfg |-> 1, attrs |-> <<>>, groups |-> <<>>,
     cachedHandler |-> <<>>, cachedConfigVersion |-> 0]

InitOf(configs) ==
    /\ NoPureCalls
    /\ \E v \in configs :
          /\ cfgs = <<[Level |-> v.Level, Format |-> v.Format, Output |-> v.Output,
                       MaskKeys |-> 1, RemoveKeys |-> 1, LevelNames |-> 1,
                       ContextKeys |-> IF v.ContextKeys = <<>> THEN NilSlice
                                       ELSE [arr |-> 1, len |-> Len(v.ContextKeys)]]>>
          /\ maskMaps = <<v.MaskKeys>>
          /\ removeMaps = <<v.RemoveKeys>>
          /\ nameMaps = <<v.LevelNames>>
          /\ arrays = IF v.ContextKeys = <<>> THEN <<>> ELSE <<v.ContextKeys>>
          /\ published = (1 :> v)
    /\ cfgPtr = <<1>>
    /\ loggers = <<RootLogger>>
    /\ sinks = [w \in Writers |-> FALSE]
    /\ threads = [t \in Threads |-> IdleThread]
    /\ lastStore = [cfg |-> 1, old |-> 0, mut |-> <<>>]

Init    == InitOf(ConcInitialConfigs)
InitSeq == InitOf(InitialConfigs)

-----------------------------------------------------------------------------
(* Logger facade and dynamic handler *)

\* DynamicHandler.Enabled, on the Config the atomic load returned
Enabled(H, c, level) == level >= H.cfgs[c].Level

\* (a fast-path test that accepts whatever version is recorded)
CacheVersionAny(h, c) == h.cachedConfigVersion # 0

\* (a fast-path test that compares the snapshots' field values)
CacheVersionSameValue(h, c) ==
    /\ h.cachedConfigVersion # 0
    /\ ConfigValue(Heap, h.cachedConfigVersion) = ConfigValue(Heap, c)

\* the fast-path test of getOrBuildCachedHandler
CacheVersionMatches(h, c) == h.cachedConfigVersion = c

\* (a derivation that puts the new fields before the parent's)
WithAttrsPrepend(h, attrs) ==
    [cfgPtr |-> h.cfgPtr, cfg |-> h.cfg, attrs |-> attrs \o h.attrs, groups |-> h.groups,
     cachedHandler |-> <<>>, cachedConfigVersion |-> 0]

\* DynamicHandler.WithAttrs / WithGroup: the derived handler
WithAttrs(h, attrs) ==
    [cfgPtr |-> h.cfgPtr, cfg |-> h.cfg, attrs |-> h.attrs \o attrs, groups |-> h.groups,
     cachedHandler |-> <<>>, cachedConfigVersion |-> 0]

WithGroup(h, name) ==
    [cfgPtr |-> h.cfgPtr, cfg |-> h.cfg, attrs |-> h.attrs, groups |-> Append(h.groups, name),
     cachedHandler |-> <<>>, cachedConfigVersion |-> 0]

\* a panic or os.Exit ends the process: no goroutine takes another step
Running == \A t \in Threads : threads[t].pc \notin {"panicked", "exited"}
At(t, pc) == Running /\ threads[t].pc = pc

\* the bound on allocation
HeapFull == Len(cfgs) + Len(loggers) >= MaxObjects

\* Logger.Log returns: to the caller of a leveled log call, or to the
\* os.Exit statement of FatalContext
Return(th) ==
    IF th.op = "fatal" THEN [IdleThread EXCEPT !.op = "fatal", !.l = th.l, !.pc = "exit"]
    ELSE IdleThread

\* a log call at severity lvl enters Logger.Log
LogCall(t, l, lvl, ctx, args) ==
    /\ At(t, "idle")
    /\ threads' = [threads EXCEPT ![t] =
           [IdleThread EXCEPT !.op = "log", !.l = l, !.lvl = lvl, !.ctx = ctx,
                              !.args = args, !.pc = "enabled"]]
    /\ UNCHANGED <<pureVars, heapVars, cfgPtr, loggers, sinks, published, lastStore>>

\* Logger.Log: the Enabled check (one atomic load); a disabled call returns
LogEnabled(t) ==
    /\ At(t, "enabled")
    /\ loggers[threads[t].l].cfg # 0
    /\ LET c == cfgPtr[loggers[threads[t].l].cfg]
       IN  threads' = [threads EXCEPT ![t] =
               IF Enabled(Heap, c, threads[t].lvl)
               THEN [@ EXCEPT !.enabledCfg = c, !.pc = "handle"]
               ELSE Return(@)]
    /\ UNCHANGED <<pureVars, heapVars, cfgPtr, loggers, sinks, published, lastStore>>

\* Handle: cfg := h.cfg.Load() and the collection of the context attributes
HandleLoad(t) ==
    /\ At(t, "handle")
    /\ LET c == cfgPtr[loggers[threads[t].l].cfg]
       IN  threads' = [threads EXCEPT
               ![t].cfg = c,
               ![t].ctxAttrs = ContextAttrs(SliceElems(Heap, cfgs[c].ContextKeys), threads[t].ctx),
               ![t].pc = "version"]
    /\ UNCHANGED <<pureVars, heapVars, cfgPtr, loggers, sinks, published, lastStore>>

\* getOrBuildCachedHandler: h.cachedConfigVersion.Load() == cfg
VersionLoad(t) ==
    /\ At(t, "version")
    /\ threads' = [threads EXCEPT ![t].pc =
           IF CacheVersionMatches(loggers[threads[t].l], threads[t].cfg)
           THEN "cached" ELSE "build"]
    /\ UNCHANGED <<pureVars, heapVars, cfgPtr, loggers, sinks, published, lastStore>>

\* getOrBuildCachedHandler: cached := h.cachedHandler.Load()
CachedLoad(t) ==
    /\ At(t, "cached")
    /\ LET cached == loggers[threads[t].l].cachedHandler
       IN  threads' = [threads EXCEPT
               ![t].base = cached,
               ![t].hit = (cached # <<>>),
               ![t].pc = IF cached # <<>> THEN "emit" ELSE "build"]
    /\ UNCHANGED <<pureVars, heapVars, cfgPtr, loggers, sinks, published, lastStore>>

\* (a rebuild that caches the chain with the call's context layer on it)
BuildStoreWithContext(t) ==
    /\ At(t, "build")
    /\ LET l == threads[t].l
           base == BuildChain(Heap, loggers[l], threads[t].cfg)
           bound == IF Len(threads[t].ctxAttrs) > 0
                    THEN ChainWithAttrs(Heap, base, threads[t].ctxAttrs) ELSE base
       IN  /\ loggers' = [loggers EXCEPT ![l].cachedHandler = <<bound>>]
           /\ threads' = [threads EXCEPT ![t].base = <<base>>, ![t].pc = "storeVersion"]
    /\ UNCHANGED <<pureVars, heapVars, cfgPtr, sinks, published, lastStore>>

\* getOrBuildCachedHandler: the rebuild and h.cachedHandler.Store(&base)
BuildStore(t) ==
    /\ At(t, "build")
    /\ LET l == threads[t].l
           base == BuildChain(Heap, loggers[l], threads[t].cfg)
       IN  /\ loggers' = [loggers EXCEPT ![l].cachedHandler = <<base>>]
           /\ threads' = [threads EXCEPT ![t].base = <<base>>, ![t].pc = "storeVersion"]
    /\ UNCHANGED <<pureVars, heapVars, cfgPtr, sinks, published, lastStore>>

\* getOrBuildCachedHandler: h.cachedConfigVersion.Store(cfg)
VersionStore(t) ==
    /\ At(t, "storeVersion")
    /\ loggers' = [loggers EXCEPT ![threads[t].l].cachedConfigVersion = threads[t].cfg]
    /\ threads' = [threads EXCEPT ![t].pc = "emit"]
    /\ UNCHANGED <<pureVars, heapVars, cfgPtr, sinks, published, lastStore>>

\* Handle steps 3 and 4: the chain with the transient context layer
EmitChain(t) ==
    IF Len(threads[t].ctxAttrs) > 0
    THEN ChainWithAttrs(Heap, threads[t].base[1], threads[t].ctxAttrs)
    ELSE threads[t].base[1]

\* the line base.Handle(ctx, r) formats
EmitLine(t) == ChainHandle(Heap, EmitChain(t), threads[t].lvl, LogMessage, threads[t].args)

\* Handle steps 3 and 4: base.Handle(ctx, r) writes the line to the chain's sink
\* (a sink takes one line at a time: the write blocks until its reader took
\* the line before)
Emit(t) ==
    /\ At(t, "emit")
    /\ ~sinks[EmitChain(t).output]
    /\ IF Panicked(EmitLine(t))
       THEN /\ threads' = [threads EXCEPT ![t].pc = "panicked"]
            /\ UNCHANGED sinks
       ELSE /\ sinks' = [sinks EXCEPT ![EmitChain(t).output] = TRUE]
            /\ threads' = [threads EXCEPT ![t] = Return(@)]
    /\ UNCHANGED <<pureVars, heapVars, cfgPtr, loggers, published, lastStore>>

\* FatalContext: l.Log(ctx, LevelFatal, msg, args...) is entered
FatalContext(t, l, ctx, args) ==
    /\ At(t, "idle")
    /\ threads' = [threads EXCEPT ![t] =
           [IdleThread EXCEPT !.op = "fatal", !.l = l, !.lvl = LevelFatal, !.ctx = ctx,
                              !.args = args, !.pc = "enabled"]]
    /\ UNCHANGED <<pureVars, heapVars, cfgPtr, loggers, sinks, published, lastStore>>

\* FatalContext: os.Exit(1)
OsExit(t) ==
    /\ At(t, "exit")
    /\ threads' = [threads EXCEPT ![t].pc = "exited", ![t].status = ExitCode]
    /\ UNCHANGED <<pureVars, heapVars, cfgPtr, loggers, sinks, published, lastStore>>

\* UpdateConfig: oldCfg := l.cfgPtr.Load(); newCfg := oldCfg.Clone()
UpdateLoadClone(t, l, mut) ==
    /\ At(t, "idle")
    /\ loggers[l].cfgPtr # 0
    /\ ~HeapFull
    /\ LET old == cfgPtr[loggers[l].cfgPtr]
           H   == Clone(Heap, old)
       IN  /\ SetHeap(H)
           /\ threads' = [threads EXCEPT ![t] =
                  [IdleThread EXCEPT !.op = "update", !.l = l, !.oldCfg = old,
                                     !.newCfg = Len(H.cfgs), !.mut = mut, !.todo = mut,
                                     !.pc = IF mut = <<>> THEN "store" ELSE "mutate"]]
    /\ UNCHANGED <<pureVars, cfgPtr, loggers, sinks, published, lastStore>>

\* UpdateConfig: fn(newCfg), one statement of the mutator
UpdateMutate(t) ==
    /\ At(t, "mutate")
    /\ SetHeap(ApplyOp(Heap, threads[t].newCfg, Head(threads[t].todo)))
    /\ threads' = [threads EXCEPT
           ![t].todo = Tail(@),
           ![t].pc = IF Tail(threads[t].todo) = <<>> THEN "store" ELSE "mutate"]
    /\ UNCHANGED <<pureVars, cfgPtr, loggers, sinks, published, lastStore>>

\* what the goroutine holds after fn(newCfg) failed: the panic left
\* UpdateConfig, and either the caller recovered it or the process ended
AfterFailure(th, recovered) ==
    [IdleThread EXCEPT !.op = "failed", !.l = th.l, !.oldCfg = th.oldCfg,
                       !.newCfg = th.newCfg, !.mut = th.mut, !.todo = th.todo,
                       !.pc = IF recovered THEN "idle" ELSE "panicked"]

\* (a failure path that still stores the Config as far as it was mutated)
UpdateMutateFailsAndStores(t, recovered) ==
    /\ At(t, "mutate")
    /\ cfgPtr' = [cfgPtr EXCEPT ![loggers[threads[t].l].cfgPtr] = threads[t].newCfg]
    /\ threads' = [threads EXCEPT ![t] = AfterFailure(@, recovered)]
    /\ UNCHANGED <<pureVars, heapVars, loggers, sinks, published, lastStore>>

\* UpdateConfig: fn(newCfg) does not return normally: the statements still
\* to run are not run and l.cfgPtr.Store(newCfg) is not reached
UpdateMutateFails(t, recovered) ==
    /\ At(t, "mutate")
    /\ threads' = [threads EXCEPT ![t] = AfterFailure(@, recovered)]
    /\ UNCHANGED <<pureVars, heapVars, cfgPtr, loggers, sinks, published, lastStore>>

\* (a store that is dropped when another writer stored since the load)
UpdateStoreIfUnchanged(t) ==
    /\ At(t, "store")
    /\ cfgPtr' = IF cfgPtr[loggers[threads[t].l].cfgPtr] = threads[t].oldCfg
                 THEN [cfgPtr EXCEPT ![loggers[threads[t].l].cfgPtr] = threads[t].newCfg]
                 ELSE cfgPtr
    /\ published' = (threads[t].newCfg :> ConfigValue(Heap, threads[t].newCfg)) @@ published
    /\ lastStore' = [cfg |-> threads[t].newCfg, old |-> threads[t].oldCfg,
                     mut |-> threads[t].mut]
    /\ threads' = [threads EXCEPT ![t] = IdleThread]
    /\ UNCHANGED <<pureVars, heapVars, loggers, sinks>>

\* UpdateConfig: l.cfgPtr.Store(newCfg)
UpdateStore(t) ==
    /\ At(t, "store")
    /\ cfgPtr' = [cfgPtr EXCEPT ![loggers[threads[t].l].cfgPtr] = threads[t].newCfg]
    /\ published' = (threads[t].newCfg :> ConfigValue(Heap, threads[t].newCfg)) @@ published
    /\ lastStore' = [cfg |-> threads[t].newCfg, old |-> threads[t].oldCfg,
                     mut |-> threads[t].mut]
    /\ threads' = [threads EXCEPT ![t] = IdleThread]
    /\ UNCHANGED <<pureVars, heapVars, loggers, sinks>>

\* (a store that only the logger New returned performs)
UpdateStoreRootOnly(t) ==
    /\ At(t, "store")
    /\ cfgPtr' = IF threads[t].l = 1
                 THEN [cfgPtr EXCEPT ![loggers[threads[t].l].cfgPtr] = threads[t].newCfg]
                 ELSE cfgPtr
    /\ published' = (threads[t].newCfg :> ConfigValue(Heap, threads[t].newCfg)) @@ published
    /\ lastStore' = [cfg |-> threads[t].newCfg, old |-> threads[t].oldCfg,
                     mut |-> threads[t].mut, via |-> threads[t].l]
    /\ threads' = [threads EXCEPT ![t] = IdleThread]
    /\ UNCHANGED <<pureVars, heapVars, loggers, sinks>>

\* UpdateConfig: l.cfgPtr.Store(newCfg), with the logger it was issued
\* through kept in the history
UpdateStoreVia(t) ==
    /\ At(t, "store")
    /\ cfgPtr' = [cfgPtr EXCEPT ![loggers[threads[t].l].cfgPtr] = threads[t].newCfg]
    /\ published' = (threads[t].newCfg :> ConfigValue(Heap, threads[t].newCfg)) @@ published
    /\ lastStore' = [cfg |-> threads[t].newCfg, old |-> threads[t].oldCfg,
                     mut |-> threads[t].mut, via |-> threads[t].l]
    /\ threads' = [threads EXCEPT ![t] = IdleThread]
    /\ UNCHANGED <<pureVars, heapVars, loggers, sinks>>

\* Logger.SetLevel(lvl): UpdateConfig of the function that assigns Level
SetLevel(t, l, lvl) == UpdateLoadClone(t, l, <<OpLevel(lvl)>>)

\* UpdateConfig on a Logger whose cfgPtr is nil: l.cfgPtr.Load() dereferences
\* the nil pointer
UpdateNilLoad(t, l, mut) ==
    /\ At(t, "idle")
    /\ loggers[l].cfgPtr = 0
    /\ threads' = [threads EXCEPT ![t] =
           [IdleThread EXCEPT !.op = "update", !.l = l, !.mut = mut, !.pc = "panicked"]]
    /\ UNCHANGED <<pureVars, heapVars, cfgPtr, loggers, sinks, published, lastStore>>

\* the key ToContext stores the logger under, and a stored logger
ctxKey == "slogx.ctxKey{}"
LoggerV(l) == [kind |-> "logger", s |-> <<>>, lvl |-> l, members |-> <<>>]

\* the Logger FromContext makes when ctx carries none: it wraps
\* slog.Default() and its cfgPtr is nil
DefaultLogger ==
    [cfgPtr |-> 0, cfg |-> 0, attrs |-> <<>>, groups |-> <<>>,
     cachedHandler |-> <<>>, cachedConfigVersion |-> 0]

\* ctx = ToContext(ctx, l): the goroutine keeps the derived context
ToContext(t, l) ==
    /\ At(t, "idle")
    /\ threads' = [threads EXCEPT ![t] =
           [IdleThread EXCEPT !.ctx = (ctxKey :> LoggerV(l)) @@ threads[t].ctx]]
    /\ UNCHANGED <<pureVars, heapVars, cfgPtr, loggers, sinks, published, lastStore>>

\* l = FromContext(ctx) on the context the goroutine keeps: the goroutine
\* holds the returned logger
FromContext(t) ==
    /\ At(t, "idle")
    /\ IF ctxKey \in DOMAIN threads[t].ctx
       THEN /\ threads' = [threads EXCEPT ![t] =
                   [IdleThread EXCEPT !.op = "from", !.ctx = threads[t].ctx,
                                      !.l = threads[t].ctx[ctxKey].lvl]]
            /\ UNCHANGED loggers
       ELSE /\ ~HeapFull
            /\ loggers' = Append(loggers, DefaultLogger)
            /\ threads' = [threads EXCEPT ![t] =
                   [IdleThread EXCEPT !.op = "from", !.ctx = threads[t].ctx,
                                      !.l = Len(loggers) + 1]]
    /\ UNCHANGED <<pureVars, heapVars, cfgPtr, sinks, published, lastStore>>

\* a log call through a Logger that wraps slog.Default(): the record goes
\* to the handler of the standard library and the call returns
DefaultLog(t) ==
    /\ At(t, "enabled")
    /\ loggers[threads[t].l].cfg = 0
    /\ threads' = [threads EXCEPT ![t] = Return(@)]
    /\ UNCHANGED <<pureVars, heapVars, cfgPtr, loggers, sinks, published, lastStore>>

\* Logger.With(args...)
With(t, l, attrs) ==
    /\ At(t, "idle")
    /\ ~HeapFull
    /\ loggers' = Append(loggers, WithAttrs(loggers[l], attrs))
    /\ UNCHANGED <<pureVars, heapVars, cfgPtr, sinks, threads, published, lastStore>>

\* Logger.WithGroup(name)
LoggerWithGroup(t, l, name) ==
    /\ At(t, "idle")
    /\ ~HeapFull
    /\ loggers' = Append(loggers, WithGroup(loggers[l], name))
    /\ UNCHANGED <<pureVars, heapVars, cfgPtr, sinks, threads, published, lastStore>>

\* the reader of sink w takes what was written
Drain(w) ==
    /\ Running
    /\ sinks[w]
    /\ sinks' = [sinks EXCEPT ![w] = FALSE]
    /\ UNCHANGED <<pureVars, heapVars, cfgPtr, loggers, threads, published, lastStore>>

LogStep(t, inputs) ==
    \/ \E l \in 1..Len(loggers), lvl \in LogLevels, in \in inputs :
          LogCall(t, l, lvl, in.ctx, in.args)
    \/ LogEnabled(t)
    \/ HandleLoad(t)
    \/ VersionLoad(t)
    \/ CachedLoad(t)
    \/ BuildStore(t)
    \/ VersionStore(t)
    \/ Emit(t)

UpdateStep(t, muts) ==
    \/ \E l \in 1..Len(loggers), mut \in muts : UpdateLoadClone(t, l, mut)
    \/ UpdateMutate(t)
    \/ UpdateStore(t)

DeriveFrom(t, args, names) ==
    \/ \E l \in 1..Len(loggers), attrs \in args : With(t, l, attrs)
    \/ \E l \in 1..Len(loggers), name \in names : LoggerWithGroup(t, l, name)

DeriveStep(t) == DeriveFrom(t, WithArgs, GroupNames)

\* goroutines calling into one logger concurrently
Next ==
    \/ \E t \in Threads : LogStep(t, ConcLogInputs[t]) \/ UpdateStep(t, ConcMutators)
    \/ \E w \in Writers : Drain(w)

Spec == Init /\ [][Next]_vars

\* one goroutine: the calls do not overlap
NextSeq ==
    \/ \E t \in SeqThreads : LogStep(t, LogInputs) \/ UpdateStep(t, Mutators) \/ DeriveStep(t)
    \/ \E w \in Writers : Drain(w)

SpecSeq == InitSeq /\ [][NextSeq]_vars

-----------------------------------------------------------------------------
(* Specification of derivation: With / WithGroup calls with distinguishable
   arguments, and log calls that fill the caches *)

DeriveArgs   == {<<Attr("k", ValB)>>, <<Attr("j", ValC), Attr("k", ValD)>>}
DeriveGroups == {"g", "h"}
DeriveLogInputs == {[ctx |-> CtxNone, args |-> ArgPlain]}

NextDerive ==
    \/ \E t \in SeqThreads : LogStep(t, DeriveLogInputs)
    \/ \E t \in SeqThreads : DeriveFrom(t, DeriveArgs, DeriveGroups)
    \/ \E w \in Writers : Drain(w)

SpecDerive == Init /\ [][NextDerive]_vars

-----------------------------------------------------------------------------
(* Specification of shared configuration: one goroutine reconfigures and logs
   through a logger and the loggers derived from it *)

ShareLogInputs == {[ctx |-> CtxNone, args |-> ArgPlain]}
ShareLevels    == {LevelDebug, LevelError}
\* a mutator function that changes nothing
MutNothing     == <<>>
ShareMutators  == {MutNothing, MutJSON}

NextShare ==
    \/ \E t \in SeqThreads : LogStep(t, ShareLogInputs)
    \/ \E t \in SeqThreads, l \in 1..Len(loggers), mut \in ShareMutators :
          UpdateLoadClone(t, l, mut)
    \/ \E t \in SeqThreads, l \in 1..Len(loggers), lvl \in ShareLevels : SetLevel(t, l, lvl)
    \/ \E t \in SeqThreads : UpdateMutate(t)
    \/ \E t \in SeqThreads : UpdateStoreVia(t)
    \/ \E t \in SeqThreads : DeriveStep(t)
    \/ \E w \in Writers : Drain(w)

SpecShare == Init /\ [][NextShare]_vars

-----------------------------------------------------------------------------
(* Specification of context extraction: two goroutines log through one
   handler with different contexts while a context key is added *)

CtxJK == ("j" :> ValB) @@ ("k" :> ValC)
CtxJ  == "j" :> ValB
CtxLogInputs ==
    ("t1" :> {[ctx |-> CtxJK, args |-> ArgPlain], [ctx |-> CtxK, args |-> ArgPlain]})
    @@ ("t2" :> {[ctx |-> CtxNone, args |-> ArgPlain], [ctx |-> CtxJ, args |-> ArgPlain]})
\* c.ContextKeys = append(c.ContextKeys, "j")
MutContextKey == <<OpContextKey("j")>>

NextCtx ==
    \/ \E t \in Threads : LogStep(t, CtxLogInputs[t])
    \/ \E t \in Threads : UpdateStep(t, {MutContextKey})
    \/ \E w \in Writers : Drain(w)

SpecCtx == Init /\ [][NextCtx]_vars

-----------------------------------------------------------------------------
(* Specification of the terminal severity: one goroutine logs, reconfigures
   and calls FatalContext while another one logs *)

\* a threshold above every named level
LevelAboveFatal == LevelFatal + 4
FatalLevels   == {LevelDebug, LevelAboveFatal}
FatalInputs   == {[ctx |-> CtxNone, args |-> ArgPlain], [ctx |-> CtxK, args |-> ArgNoLocal]}
FatalMutators == {MutRedact}
FatalLogInputs == {[ctx |-> CtxNone, args |-> ArgPlain]}

NextFatal ==
    \/ \E l \in 1..Len(loggers), in \in FatalInputs : FatalContext("t1", l, in.ctx, in.args)
    \/ OsExit("t1")
    \/ \E t \in Threads : LogStep(t, FatalLogInputs)
    \/ UpdateStep("t1", FatalMutators)
    \/ \E l \in 1..Len(loggers), lvl \in FatalLevels : SetLevel("t1", l, lvl)
    \/ \E w \in Writers : Drain(w)

SpecFatal == Init /\ [][NextFatal]_vars

-----------------------------------------------------------------------------
(* Specification of context propagation: a goroutine stores loggers in its
   context, takes the logger of its context and uses every logger it has *)

ContextLogInputs == {[ctx |-> CtxNone, args |-> ArgPlain]}

NextContext ==
    \/ \E l \in 1..Len(loggers) : ToContext("t1", l)
    \/ FromContext("t1")
    \/ LogStep("t1", ContextLogInputs)
    \/ DefaultLog("t1")
    \/ DeriveStep("t1")
    \/ UpdateStep("t1", {MutJSON})
    \/ \E l \in 1..Len(loggers) : UpdateNilLoad("t1", l, MutJSON)
    \/ \E l \in 1..Len(loggers), lvl \in ShareLevels : SetLevel("t1", l, lvl)
    \/ \E l \in 1..Len(loggers), lvl \in ShareLevels : UpdateNilLoad("t1", l, <<OpLevel(lvl)>>)
    \/ \E w \in Writers : Drain(w)

SpecContext == Init /\ [][NextContext]_vars

-----------------------------------------------------------------------------
(* Specification of the threshold under reconfiguration: two goroutines log
   through one handler and set the level *)

ThresholdLevels    == {LevelDebug, LevelError}
ThresholdLogInputs == {[ctx |-> CtxNone, args |-> ArgPlain]}

NextThreshold ==
    \/ \E t \in Threads : LogStep(t, ThresholdLogInputs)
    \/ \E t \in Threads, l \in 1..Len(loggers), lvl \in ThresholdLevels : SetLevel(t, l, lvl)
    \/ \E t \in Threads : UpdateMutate(t)
    \/ \E t \in Threads : UpdateStore(t)
    \/ \E w \in Writers : Drain(w)

SpecThreshold == Init /\ [][NextThreshold]_vars

-----------------------------------------------------------------------------
(* Specification of failing reconfiguration: two goroutines log and
   reconfigure through one handler, and a mutator function may fail at any
   of its statements *)

FailMutators  == {MutRedact}
FailLogInputs == {[ctx |-> CtxNone, args |-> ArgPlain]}

NextFail ==
    \/ \E t \in Threads : LogStep(t, FailLogInputs)
    \/ \E t \in Threads : UpdateStep(t, FailMutators)
    \/ \E t \in Threads, recovered \in BOOLEAN : UpdateMutateFails(t, recovered)
    \/ \E w \in Writers : Drain(w)

SpecFail == Init /\ [][NextFail]_vars

-----------------------------------------------------------------------------
(* Specification of Config: Clone calls and statements on any Config *)

\* functions a caller runs on a Config it holds: one that adds to every
\* container, one that overwrites entries and one that deletes entries
MutGrow      == <<OpMask("k", MaskEmail), OpRemove("j"), OpLevelName(LevelWarn, <<"W">>),
                 OpContextKey("k")>>
MutOverwrite == <<OpMask("k", MaskPhone), OpLevelName(LevelWarn, <<"V">>),
                 OpSetContextKey(1, "j")>>
MutShrink    == <<OpDeleteMask("k"), OpDeleteRemove("j"), OpDeleteLevelName(LevelWarn)>>
ConfigMutators == {MutGrow, MutOverwrite, MutShrink}

\* the heap after the statements of mut have run on the Config at address c
RECURSIVE RunMutator(_, _, _)
RunMutator(H, c, mut) ==
    IF mut = <<>> THEN H ELSE RunMutator(ApplyOp(H, c, Head(mut)), c, Tail(mut))

\* the Config the clones descend from
CloneInitialConfigs ==
    [Level : {LevelInfo}, Format : {FormatText}, Output : {"w1"},
     MaskKeys : {<<>>}, RemoveKeys : {{"k"}}, LevelNames : {defaultLevelNames},
     ContextKeys : {<<"k">>}]

InitClone ==
    /\ NoPureCalls
    /\ \E v \in CloneInitialConfigs :
          /\ cfgs = <<[Level |-> v.Level, Format |-> v.Format, Output |-> v.Output,
                       MaskKeys |-> 1, RemoveKeys |-> 1, LevelNames |-> 1,
                       ContextKeys |-> IF v.ContextKeys = <<>> THEN NilSlice
                                       ELSE [arr |-> 1, len |-> Len(v.ContextKeys)]]>>
          /\ maskMaps = <<v.MaskKeys>>
          /\ removeMaps = <<v.RemoveKeys>>
          /\ nameMaps = <<v.LevelNames>>
          /\ arrays = IF v.ContextKeys = <<>> THEN <<>> ELSE <<v.ContextKeys>>
    /\ cfgPtr = <<>> /\ loggers = <<>> /\ sinks = <<>> /\ threads = <<>>
    /\ published = <<>>
    /\ lastStore = [cfg |-> 0, old |-> 0, mut |-> <<>>]

\* c.Clone()
CloneConfig(c) ==
    /\ Len(arrays) < MaxArrays
    /\ SetHeap(Clone(Heap, c))
    /\ UNCHANGED <<pureVars, cfgPtr, loggers, sinks, threads, published, lastStore>>

\* fn(c) on the Config at address c (an index expression in range, the slice
\* within the bound)
MutateConfig(c, mut) ==
    /\ mut = MutGrow =>
          \/ cfgs[c].ContextKeys.len < SliceCap(Heap, cfgs[c].ContextKeys)
          \/ Len(arrays) < MaxArrays
    /\ mut = MutOverwrite => cfgs[c].ContextKeys.len >= 1
    /\ SetHeap(RunMutator(Heap, c, mut))
    /\ UNCHANGED <<pureVars, cfgPtr, loggers, sinks, threads, published, lastStore>>

NextClone ==
    \/ \E c \in 1..Len(cfgs) : CloneConfig(c)
    \/ \E c \in 1..Len(cfgs), mut \in ConfigMutators : MutateConfig(c, mut)

SpecClone == InitClone /\ [][NextClone]_vars

-----------------------------------------------------------------------------
(* Properties of the logger under sequential use (SpecSeq) *)

\* the snapshot the logger's pointer holds, and the values it was stored with
Current == cfgPtr[1]
CurrentValue == published[Current]

\* C1: a log call at severity v below the threshold of the published snapshot
\* returns with no side effect at all; a call at v >= the threshold goes on to
\* Handle and ends by writing exactly one record to the sink, nothing before
\* that and never without it.
C1_ThresholdDecidesOutput ==
    [][\A t \in SeqThreads :
          LET th == threads[t]
              after == threads'[t]
          IN  /\ (th.pc = "enabled" /\ after # th) =>
                    IF th.lvl >= CurrentValue.Level
                    THEN after.pc = "handle"
                    ELSE after = IdleThread /\ UNCHANGED <<heapVars, cfgPtr, loggers, sinks>>
              /\ (th.op = "log" /\ th.pc # "enabled" /\ after # th) =>
                    /\ after.pc # "panicked"
                    /\ IF after.pc = "idle"
                       THEN \E w \in Writers : ~sinks[w] /\ sinks' = [sinks EXCEPT ![w] = TRUE]
                       ELSE sinks' = sinks]_vars

\* the same for the calls that do not end in a panic
ThresholdDecidesOutputUnlessPanic ==
    [][\A t \in SeqThreads :
          LET th == threads[t]
              after == threads'[t]
          IN  /\ (th.pc = "enabled" /\ after # th) =>
                    IF th.lvl >= CurrentValue.Level
                    THEN after.pc = "handle"
                    ELSE after = IdleThread /\ UNCHANGED <<heapVars, cfgPtr, loggers, sinks>>
              /\ (th.op = "log" /\ th.pc # "enabled" /\ after # th /\ after.pc # "panicked") =>
                    IF after.pc = "idle"
                    THEN \E w \in Writers : ~sinks[w] /\ sinks' = [sinks EXCEPT ![w] = TRUE]
                    ELSE sinks' = sinks]_vars

\* C2: with non-overlapping UpdateConfig and Handle calls, the chain a Handle
\* call emits through is the chain built from the snapshot published when the
\* call started, whether it came from the cache or from a rebuild.
C2_ChainFromPublishedSnapshot ==
    \A t \in SeqThreads :
        threads[t].pc = "emit" =>
            /\ threads[t].cfg = Current
            /\ threads[t].base = <<BuildChain(Heap, loggers[threads[t].l], Current)>>

\* a call after a reconfiguration of format and sink found the chain cached
\* for the previous snapshot and emits through a rebuilt one
C2_Witness ==
    \E t \in SeqThreads :
        /\ threads[t].pc = "emit"
        /\ ~threads[t].hit
        /\ threads[t].cfg > 2
        /\ threads[t].base[1].format = FormatJSON
        /\ threads[t].base[1].output = "w2"
        /\ loggers[threads[t].l].cachedConfigVersion = threads[t].cfg

\* the fields of the three sources of a call, as the chain formats them
FieldsOf(fs, path, key) == {i \in 1..Len(fs) : fs[i].path = path /\ fs[i].key = key}
\* last write wins: the value a reader of the line gets for path.key
Resolved(fs, path, key) ==
    fs[CHOOSE i \in FieldsOf(fs, path, key) : \A j \in FieldsOf(fs, path, key) : j <= i].val
ContextFields(t) ==
    FormatAttrs(Heap, threads[t].cfg, loggers[threads[t].l].groups, threads[t].ctxAttrs)
BoundFields(t) == threads[t].base[1].pre

\* C6: in the emitted record a key supplied by the context resolves to the
\* context's value, and a key supplied by With (and not by the context)
\* resolves to the bound value, whatever the log call itself attached.
C6_FieldPriority ==
    \A t \in SeqThreads :
        (threads[t].pc = "emit" /\ ~Panicked(EmitLine(t))) =>
            LET fs == EmitLine(t).fields
                path == loggers[threads[t].l].groups
            IN  \A key \in {"k"} :
                    /\ FieldsOf(ContextFields(t), path, key) # {} =>
                          Resolved(fs, path, key) = Resolved(ContextFields(t), path, key)
                    /\ (FieldsOf(ContextFields(t), path, key) = {}
                            /\ FieldsOf(BoundFields(t), path, key) # {}) =>
                          Resolved(fs, path, key) = Resolved(BoundFields(t), path, key)

\* whether the line shows key k: as a field's key or as a group it opens
Shows(line, k) ==
    \E i \in 1..Len(line.fields) :
        \/ line.fields[i].key = k
        \/ \E j \in 1..Len(line.fields[i].path) : line.fields[i].path[j] = k

\* C8: a record emitted while the published snapshot's removal set contains k
\* does not show k, in either format, whichever way k was supplied.
C8_RemovedKeyNeverShown ==
    \A t \in SeqThreads :
        threads[t].pc = "emit" =>
            \A k \in CurrentValue.RemoveKeys : ~Shows(EmitLine(t), k)

\* the same for the calls whose fields are not group-valued
RemovedScalarKeyNeverShown ==
    \A t \in SeqThreads :
        (threads[t].pc = "emit" /\ threads[t].args # ArgGroup) =>
            \A k \in CurrentValue.RemoveKeys : ~Shows(EmitLine(t), k)

-----------------------------------------------------------------------------
(* Properties of the logger under concurrent use (Spec) *)

\* C3: the chain getOrBuildCachedHandler(cfg) returns from the cache was built
\* from cfg.
C3_CachedChainBuiltFromCfg ==
    \A t \in Threads :
        (threads[t].pc = "emit" /\ threads[t].hit) =>
            threads[t].base[1].cfg = threads[t].cfg

\* no call is in flight
Quiescent == \A t \in Threads : threads[t].pc = "idle"

\* C20: when every Handle call that overlapped the UpdateConfig that
\* published the current snapshot has returned, no handler's cache holds,
\* under the identity of the current snapshot, a chain built for another
\* snapshot; and a call that began after that, loaded the current snapshot
\* and took the chain from the cache emits through the chain built from the
\* current snapshot.
C20_ConvergesAfterUpdate ==
    /\ Quiescent =>
          \A l \in DOMAIN loggers :
              CacheVersionMatches(loggers[l], Current) =>
                  /\ loggers[l].cachedHandler # <<>>
                  /\ loggers[l].cachedHandler[1] = BuildChain(Heap, loggers[l], Current)
    /\ \A t \in Threads :
          (threads[t].pc = "emit" /\ threads[t].hit /\ threads[t].cfg = Current
              /\ \A u \in Threads \ {t} : threads[u].pc = "idle") =>
                  threads[t].base[1] = BuildChain(Heap, loggers[threads[t].l], Current)

\* the values of a Config after one statement of a mutator, and after all
ApplyOpValue(v, o) ==
    CASE o.op = "Level"  -> [v EXCEPT !.Level = o.lvl]
      [] o.op = "Format" -> [v EXCEPT !.Format = o.x]
      [] o.op = "Output" -> [v EXCEPT !.Output = o.x]
      [] o.op = "Remove" -> [v EXCEPT !.RemoveKeys = @ \cup {o.k}]
      [] o.op = "Mask"   -> [v EXCEPT !.MaskKeys = (o.k :> o.x) @@ @]
      [] o.op = "LevelName" -> [v EXCEPT !.LevelNames = (o.lvl :> o.name) @@ @]
      [] o.op = "ContextKey" -> [v EXCEPT !.ContextKeys = Append(@, o.k)]
      [] o.op = "DeleteMask" ->
            [v EXCEPT !.MaskKeys = [key \in (DOMAIN @) \ {o.k} |-> @[key]]]
      [] o.op = "DeleteRemove" -> [v EXCEPT !.RemoveKeys = @ \ {o.k}]
      [] o.op = "DeleteLevelName" ->
            [v EXCEPT !.LevelNames = [l \in (DOMAIN @) \ {o.lvl} |-> @[l]]]
      [] o.op = "SetContextKey" -> [v EXCEPT !.ContextKeys[o.idx] = o.k]

RECURSIVE MutateValue(_, _)
MutateValue(v, mut) ==
    IF mut = <<>> THEN v ELSE MutateValue(ApplyOpValue(v, Head(mut)), Tail(mut))

\* C4: every snapshot that was published still holds the values it was
\* published with; a mutator runs on a clone that is not published and that no
\* reader holds; what a reader loads is a published snapshot, and what is
\* published is the loaded snapshot's values with the whole mutator applied.
C4_PublishedSnapshotImmutable ==
    /\ \A c \in DOMAIN published : ConfigValue(Heap, c) = published[c]
    /\ \A t \in Threads :
          /\ threads[t].pc \in {"mutate", "store"} =>
                /\ threads[t].newCfg \notin DOMAIN published
                /\ threads[t].newCfg # Current
                /\ \A u \in Threads :
                      threads[t].newCfg \notin {threads[u].cfg, threads[u].enabledCfg}
          /\ threads[t].pc = "store" =>
                ConfigValue(Heap, threads[t].newCfg)
                    = MutateValue(published[threads[t].oldCfg], threads[t].mut)
          /\ threads[t].cfg # 0 => threads[t].cfg \in DOMAIN published
    /\ Current \in DOMAIN published

\* a reader still holds the first snapshot while a later one is published and
\* a writer is half-way through its mutator on a clone
C4_Witness ==
    \E t, u \in Threads :
        /\ threads[t].pc = "emit"
        /\ threads[t].cfg = 1
        /\ Current # 1
        /\ threads[u].pc = "mutate"
        /\ Len(threads[u].todo) < Len(threads[u].mut)

\* C5: the pointer holds the clone stored last, whose values are those of the
\* snapshot its writer loaded with that writer's mutation and nothing else.
C5_LastStoreWins ==
    /\ Current = lastStore.cfg
    /\ Current \in DOMAIN published
    /\ lastStore.old # 0 =>
          ConfigValue(Heap, Current) = MutateValue(published[lastStore.old], lastStore.mut)

\* two writers loaded the first snapshot, both stored, and the one stored
\* first is not reflected in the published snapshot
C5_Witness ==
    /\ \A t \in Threads : threads[t].pc = "idle"
    /\ lastStore.old = 1
    /\ \E c \in DOMAIN published :
          /\ c \notin {1, Current}
          /\ published[c] # published[1]
          /\ CurrentValue # MutateValue(published[c], lastStore.mut)
          /\ CurrentValue = MutateValue(published[1], lastStore.mut)

-----------------------------------------------------------------------------
(* Properties of handler derivation (SpecDerive) *)

\* what a handler binds
Bound(h) == [attrs |-> h.attrs, groups |-> h.groups]
IsPrefix(a, b) == Len(a) <= Len(b) /\ SubSeq(b, 1, Len(a)) = a

\* C14: a derivation adds one handler: it has the parent's bound fields
\* followed by the new ones in the order given (resp. the parent's groups
\* followed by the new name), the parent's snapshot reference and an empty
\* cache, and it leaves every existing handler, the parent's cache included,
\* as it was; no step at all changes what an existing handler binds, so a
\* handler never gets what a sibling added.
C14_DerivationCopyOnAppend ==
    [][/\ Len(loggers') >= Len(loggers)
       /\ \A l \in DOMAIN loggers : Bound(loggers'[l]) = Bound(loggers[l])
       /\ Len(loggers') > Len(loggers) =>
             /\ Len(loggers') = Len(loggers) + 1
             /\ SubSeq(loggers', 1, Len(loggers)) = loggers
             /\ LET child == loggers'[Len(loggers')]
                IN  /\ child.cachedHandler = <<>>
                    /\ child.cachedConfigVersion = 0
                    /\ \E p \in DOMAIN loggers :
                          /\ child.cfgPtr = loggers[p].cfgPtr
                          /\ \/ /\ child.groups = loggers[p].groups
                                /\ \E attrs \in DeriveArgs :
                                      child.attrs = loggers[p].attrs \o attrs
                             \/ /\ child.attrs = loggers[p].attrs
                                /\ \E name \in DeriveGroups :
                                      child.groups = loggers[p].groups \o <<name>>]_vars

\* a handler with a bound field and a filled cache, and a handler derived
\* from it by With of two more fields, its cache still empty
C14_Witness ==
    \E p, a \in DOMAIN loggers :
        /\ loggers[p].cachedHandler # <<>>
        /\ loggers[p].attrs = <<Attr("k", ValB)>>
        /\ loggers[a].attrs = <<Attr("k", ValB), Attr("j", ValC), Attr("k", ValD)>>
        /\ loggers[a].groups = loggers[p].groups
        /\ loggers[a].cachedHandler = <<>>

-----------------------------------------------------------------------------
(* Properties of shared configuration (SpecShare) *)

\* C15: every logger derived by With / WithGroup holds the reference of the
\* logger it came from, so with non-overlapping calls the configuration last
\* stored by UpdateConfig or SetLevel, through whichever logger, is the one a
\* log call through any logger passed its Enabled check against and is the one
\* its record is emitted with, on that logger's own bound fields and groups.
C15_DerivedLoggersShareConfig ==
    /\ \A l \in DOMAIN loggers :
          /\ loggers[l].cfgPtr = loggers[1].cfgPtr
          /\ loggers[l].cfg = loggers[1].cfgPtr
          /\ cfgPtr[loggers[l].cfg] = lastStore.cfg
    /\ \A t \in SeqThreads :
          LET th == threads[t]
          IN  /\ (th.op = "log" /\ th.pc # "enabled") =>
                    /\ th.enabledCfg = lastStore.cfg
                    /\ th.lvl >= published[lastStore.cfg].Level
              /\ th.pc = "emit" =>
                    /\ th.cfg = lastStore.cfg
                    /\ EmitChain(t).format = published[lastStore.cfg].Format
                    /\ EmitChain(t).output = published[lastStore.cfg].Output
                    /\ th.base[1].pre =
                          FormatAttrs(Heap, lastStore.cfg, <<>>, loggers[th.l].attrs)
                    /\ th.base[1].groups = loggers[th.l].groups

\* a log call through the first logger emits in the format that an
\* UpdateConfig through a derived logger stored, and a log call through a
\* derived logger at the level a SetLevel through the first logger enabled
C15_Witness ==
    \E t \in SeqThreads :
        /\ threads[t].pc = "emit"
        /\ "via" \in DOMAIN lastStore
        /\ \/ /\ lastStore.via > 1
              /\ threads[t].l = 1
              /\ lastStore.mut = MutJSON
              /\ EmitChain(t).format = FormatJSON
           \/ /\ lastStore.via = 1
              /\ threads[t].l > 1
              /\ lastStore.mut = <<OpLevel(LevelDebug)>>
              /\ threads[t].lvl = LevelDebug

-----------------------------------------------------------------------------
(* Properties of context extraction (SpecCtx) *)

\* the keys of a snapshot's ContextKeys that ctx has a value for, in order
PresentKeys(keys, ctx) == SelectSeq(keys, LAMBDA k : k \in DOMAIN ctx)
\* keys and values of a line's fields from position n on
KeysFrom(line, n) == [i \in 1..(Len(line.fields) - n) |-> line.fields[i + n].key]
ValuesFrom(line, n) == [i \in 1..(Len(line.fields) - n) |-> line.fields[i + n].val]

\* C16: the record a Handle call emits has, after the built-in fields and
\* the fields bound by With, exactly the context keys of the snapshot the call
\* loaded that its own context has a value for, in the snapshot's order and
\* with its own context's values, and then the call's own fields; the cached
\* chain of a handler holds the fields bound by With and nothing else. So no
\* call emits a value from another call's context, whether the calls follow
\* each other or overlap.
C16_ContextFieldsPerCall ==
    /\ \A l \in DOMAIN loggers :
          loggers[l].cachedHandler # <<>> =>
             Len(loggers[l].cachedHandler[1].pre) = Len(loggers[l].attrs)
    /\ \A t \in Threads :
          threads[t].pc = "emit" =>
             LET th      == threads[t]
                 present == PresentKeys(published[th.cfg].ContextKeys, th.ctx)
                 bound   == Len(loggers[th.l].attrs)
             IN  /\ KeysFrom(EmitLine(t), 3 + bound)
                       = present \o [i \in 1..Len(th.args) |-> th.args[i].key]
                 /\ ValuesFrom(EmitLine(t), 3 + bound)
                       = [i \in 1..Len(present) |-> th.ctx[present[i]]]
                         \o [i \in 1..Len(th.args) |-> th.args[i].val]

\* two overlapping calls on one handler are about to emit: one has both
\* context keys in its context, the other has none and took the chain from
\* the cache
C16_Witness ==
    /\ threads["t1"].pc = "emit"
    /\ threads["t2"].pc = "emit"
    /\ threads["t1"].l = threads["t2"].l
    /\ threads["t1"].ctx = CtxJK
    /\ Len(threads["t1"].ctxAttrs) = 2
    /\ threads["t2"].ctx = CtxNone
    /\ threads["t2"].hit
    /\ Len(published[threads["t2"].cfg].ContextKeys) = 2

-----------------------------------------------------------------------------
(* Properties of the terminal severity (SpecFatal) *)

\* the step of goroutine t writes a record to a sink
Writes(t) == \E w \in Writers : ~sinks[w] /\ sinks' = [sinks EXCEPT ![w] = TRUE]

\* C17: a FatalContext call ends in one way: its record is written to the
\* sink, then the process exits with a non-zero status, and once the process
\* has exited no statement of any goroutine executes.
C17_FatalExitsAfterEmission ==
    [][/\ \A t \in Threads : threads[t].pc # "exited"
       /\ \A t \in Threads :
             (threads[t].op = "fatal" /\ threads'[t] # threads[t]) =>
                /\ threads'[t].op = "fatal"
                /\ threads'[t].pc # "panicked"
                /\ threads'[t].pc = "exit" => (threads[t].pc = "emit" /\ Writes(t))
                /\ threads'[t].pc = "exited" => threads'[t].status # 0]_vars

\* what holds of every FatalContext call: it ends the process, by os.Exit
\* with a non-zero status or by a panic of the masking engine; os.Exit
\* follows the write of the record unless the threshold disabled LevelFatal
FatalEndsProcess ==
    [][/\ \A t \in Threads : threads[t].pc # "exited"
       /\ \A t \in Threads :
             (threads[t].op = "fatal" /\ threads'[t] # threads[t]) =>
                /\ threads'[t].op = "fatal"
                /\ threads'[t].pc = "panicked" =>
                      (threads[t].pc = "emit" /\ Panicked(EmitLine(t)) /\ UNCHANGED sinks)
                /\ threads'[t].pc = "exit" =>
                      \/ threads[t].pc = "emit" /\ Writes(t)
                      \/ /\ threads[t].pc = "enabled"
                         /\ CurrentValue.Level > LevelFatal
                         /\ UNCHANGED sinks
                /\ threads'[t].pc = "exited" => threads'[t].status = ExitCode]_vars

-----------------------------------------------------------------------------
(* Properties of context propagation (SpecContext) *)

\* the step is a FromContext call of goroutine t
FromContextStep(t) ==
    threads[t].pc = "idle" /\ threads'[t].op = "from" /\ threads'[t] # threads[t]

\* FromContext returns the logger ToContext stored, and a new Logger when
\* the context carries none
FromContextReturns(t) ==
    IF ctxKey \in DOMAIN threads[t].ctx
    THEN threads'[t].l = threads[t].ctx[ctxKey].lvl /\ loggers' = loggers
    ELSE /\ threads'[t].l = Len(loggers) + 1
         /\ Len(loggers') = Len(loggers) + 1
         /\ SubSeq(loggers', 1, Len(loggers)) = loggers

\* C18: FromContext on a context made by ToContext(ctx, l) returns l, on a
\* context that carries no logger it returns a new logger, and no log call,
\* With, WithGroup, UpdateConfig or SetLevel on any logger FromContext
\* returned fails.
C18_FromContextSafeDefault ==
    [][\A t \in Threads :
          /\ FromContextStep(t) => FromContextReturns(t)
          /\ threads'[t].pc # "panicked"]_vars

\* what holds: FromContext returns as claimed, and the calls that fail are
\* the UpdateConfig and SetLevel calls on a logger whose cfgPtr is nil, which
\* is the logger FromContext made or one derived from it
FromContextDefaultFailsOnlyOnUpdate ==
    [][\A t \in Threads :
          /\ FromContextStep(t) => FromContextReturns(t)
          /\ threads'[t].pc = "panicked" =>
                /\ threads'[t].op = "update"
                /\ loggers[threads'[t].l].cfgPtr = 0]_vars

\* the cache of handler h holds a chain recorded for the Config at address c
CacheValid(h, c) == h.cachedHandler # <<>> /\ h.cachedConfigVersion = c

\* C19: with non-overlapping calls, a Handle call rebuilds the chain when
\* the handler's cache is empty or recorded for another snapshot than the one
\* the call loaded, and takes the cached chain otherwise; a rebuild records
\* the loaded snapshot, so the next call without a reconfiguration does not
\* rebuild; and the snapshot an UpdateConfig publishes, whatever its mutator
\* does, is recorded in no handler's cache, so the next Handle call of every
\* handler rebuilds.
C19_RebuildIffIdentityDiffers ==
    [][\A t \in SeqThreads :
          LET th  == threads[t]
              now == threads'[t]
          IN  /\ (th.pc \in {"version", "cached"} /\ now.pc = "build") =>
                    ~CacheValid(loggers[th.l], th.cfg)
              /\ (th.pc \in {"version", "cached"} /\ now.pc = "emit") =>
                    /\ CacheValid(loggers[th.l], th.cfg)
                    /\ now.base = loggers[th.l].cachedHandler
                    /\ loggers' = loggers
              /\ (th.pc = "storeVersion" /\ now.pc = "emit") =>
                    /\ CacheValid(loggers'[th.l], th.cfg)
                    /\ th.cfg = Current
              /\ (th.pc = "store" /\ now.pc = "idle") =>
                    \A l \in DOMAIN loggers : ~CacheValid(loggers'[l], cfgPtr'[1])]_vars

\* after an UpdateConfig whose mutator changed nothing, a Handle call has
\* rebuilt the chain of its handler, while another handler still holds the
\* chain of the snapshot before
C19_Witness ==
    \E t \in SeqThreads :
        /\ threads[t].pc = "emit"
        /\ ~threads[t].hit
        /\ lastStore.mut = MutNothing
        /\ lastStore.old # 0
        /\ threads[t].cfg = lastStore.cfg
        /\ published[lastStore.cfg] = published[lastStore.old]
        /\ \E l \in DOMAIN loggers :
              l # threads[t].l /\ CacheValid(loggers[l], lastStore.old)

-----------------------------------------------------------------------------
(* Properties of the threshold under reconfiguration (SpecThreshold) *)

\* C21: the severity of a record about to be written is at least the Level
\* of the snapshot its chain was built from, whatever was published between
\* the call's Enabled check and its Handle.
C21_SeverityAtLeastFormattingLevel ==
    \A t \in Threads :
        threads[t].pc = "emit" =>
            /\ threads[t].lvl >= EmitChain(t).level
            /\ threads[t].lvl >= published[threads[t].cfg].Level

\* what holds: the severity is at least the Level of the snapshot that the
\* call's Enabled check loaded
SeverityAtLeastCheckedLevel ==
    \A t \in Threads :
        (threads[t].op = "log" /\ threads[t].pc # "enabled" /\ threads[t].pc # "idle") =>
            threads[t].lvl >= published[threads[t].enabledCfg].Level

-----------------------------------------------------------------------------
(* Properties of the caching handler against the handler without a cache
   (SpecSeq) *)

\* the line the handler without a cache emits for the call of goroutine t
UncachedLine(t) ==
    HandleUncached(Heap, loggers[threads[t].l], Current, threads[t].lvl, LogMessage,
                   threads[t].ctx, threads[t].args)
\* the call's own fields, as the chain formats them
OwnFields(t) ==
    FormatAttrs(Heap, threads[t].cfg, loggers[threads[t].l].groups, threads[t].args)

\* C22: with non-overlapping calls, the line the caching handler emits is
\* the line the handler without a cache emits for the same snapshot, bound
\* attributes, bound groups, context and record: the same fields with the
\* same values, in the same order, under the same groups.
C22_CachingIsTransparent ==
    \A t \in SeqThreads :
        threads[t].pc = "emit" => EmitLine(t) = UncachedLine(t)

\* what holds: the two lines have the same format and the same fields under
\* the same groups, but the caching handler puts the context-derived fields
\* before the call's own fields and the handler without a cache after them
CachingMovesContextFields ==
    \A t \in SeqThreads :
        threads[t].pc = "emit" =>
            LET n    == Len(EmitLine(t).fields) - Len(ContextFields(t)) - Len(OwnFields(t))
                head == SubSeq(EmitLine(t).fields, 1, n)
            IN  /\ EmitLine(t).format = UncachedLine(t).format
                /\ EmitLine(t).fields = head \o ContextFields(t) \o OwnFields(t)
                /\ UncachedLine(t).fields = head \o OwnFields(t) \o ContextFields(t)

-----------------------------------------------------------------------------
(* Properties of failing reconfiguration (SpecFail) *)

\* C23: an UpdateConfig whose mutator fails part-way stores nothing: the
\* published identity is the one before the step and is the one the last
\* completed UpdateConfig stored, and every snapshot that was published has
\* the values it was published with, also while and after the statements of
\* the failing mutator ran; an UpdateConfig whose mutator returns stores the
\* Config the mutator produced, whatever it is.
C23_FailedUpdateStoresNothing ==
    [][/\ \A t \in Threads :
             /\ (threads[t].pc = "mutate" /\ threads'[t].op = "failed") =>
                   /\ cfgPtr' = cfgPtr
                   /\ published' = published
                   /\ lastStore' = lastStore
             /\ (threads[t].pc = "store" /\ threads'[t].pc = "idle") =>
                   /\ cfgPtr'[1] = threads[t].newCfg
                   /\ published'[threads[t].newCfg]
                         = MutateValue(published[threads[t].oldCfg], threads[t].mut)
       /\ cfgPtr'[1] = lastStore'.cfg
       /\ \A c \in DOMAIN published : ConfigValue(Heap', c) = published[c]]_vars

\* a mutator failed after two of its three statements and the caller
\* recovered; the other goroutine's log call, begun on the same handler,
\* emits through the chain of the snapshot published before the failing call
C23_Witness ==
    \E t, u \in Threads :
        /\ threads[t].op = "failed"
        /\ threads[t].pc = "idle"
        /\ Len(threads[t].todo) = 1
        /\ ConfigValue(Heap, threads[t].newCfg) # published[threads[t].oldCfg]
        /\ threads[u].pc = "emit"
        /\ threads[u].cfg = threads[t].oldCfg
        /\ threads[u].cfg = Current
        /\ threads[u].base[1] = BuildChain(Heap, loggers[threads[u].l], threads[t].oldCfg)

-----------------------------------------------------------------------------
(* Properties of Config.Clone (SpecClone) *)

\* the values of every Config of the heap
Values == [c \in 1..Len(cfgs) |-> ConfigValue(Heap, c)]

\* C13: a clone starts with the values of the Config it was cloned from, and
\* a function run on one Config (adding, deleting, overwriting, appending; on a
\* clone or on the original) changes that Config's values as its statements
\* say and the values of no other Config.
C13_CloneIsDeepCopy ==
    [][LET before == Values
           after  == Values'
       IN  \/ /\ Len(after) = Len(before) + 1
              /\ \E c \in DOMAIN before : after[Len(after)] = before[c]
              /\ SubSeq(after, 1, Len(before)) = before
           \/ /\ Len(after) = Len(before)
              /\ LET changed == {c \in DOMAIN before : after[c] # before[c]}
                 IN  /\ Cardinality(changed) <= 1
                     /\ \A m \in changed :
                           \E mut \in ConfigMutators :
                               after[m] = MutateValue(before[m], mut)]_vars

\* a clone and the Config it was cloned from have come to differ in the
\* masking map, the removal set, the level names and the context keys
C13_Witness ==
    /\ Len(cfgs) >= 2
    /\ Values[1].MaskKeys # Values[2].MaskKeys
    /\ Values[1].RemoveKeys # Values[2].RemoveKeys
    /\ Values[1].LevelNames # Values[2].LevelNames
    /\ Values[1].ContextKeys # Values[2].ContextKeys
    /\ Len(Values[1].ContextKeys) = Len(Values[2].ContextKeys)

-----------------------------------------------------------------------------
(* Properties of the attribute transformation (SpecAttr) *)

\* the display name of severity l: the override, else the default textual form
DisplayName(l, levelNames) ==
    IF l \in DOMAIN levelNames THEN levelNames[l] ELSE LevelString(l)

-----------------------------------------------------------------------------
(* Properties of the masking engine (SpecMask) *)

\* C9: Mask returns a string for every input and category; it never panics.
C9_MaskNeverFails == maskCall.pc # "panicked"

\* the only panic: an email input with exactly one '@' and an empty local part
MaskPanicsOnlyOnEmptyLocalPart ==
    maskCall.pc = "panicked" =>
        /\ maskCall.mType = MaskEmail
        /\ Len(GoSplit(maskCall.in, "@")) = 2
        /\ GoSplit(maskCall.in, "@")[1] = <<>>

CountOf(s, c) == Cardinality({i \in 1..Len(s) : s[i] = c})
FirstN(s, n) == SubSeq(s, 1, IF n < Len(s) THEN n ELSE Len(s))
LastN(s, n)  == SubSeq(s, IF Len(s) > n THEN Len(s) - n + 1 ELSE 1, Len(s))

\* the email masking the claim describes
ClaimedEmail(s) ==
    IF CountOf(s, "@") # 1 THEN EmailFallback
    ELSE LET at     == CHOOSE i \in 1..Len(s) : s[i] = "@"
             local  == SubSeq(s, 1, at - 1)
             domain == SubSeq(s, at + 1, Len(s))
         IN  IF Len(local) \in {1, 2}
             THEN FirstN(local, 1) \o Stars3 \o <<"@">> \o domain
             ELSE FirstN(local, 2) \o Stars3 \o LastN(local, 1) \o <<"@">> \o domain

\* C10: every email masking call returns the string the claim describes.
C10_EmailMasking ==
    (maskCall.pc # "call" /\ maskCall.mType = MaskEmail) =>
        maskCall.out = Ok(ClaimedEmail(maskCall.in))

\* the same, for the inputs whose local part is not empty
EmailMaskingOfNonEmptyLocalPart ==
    (maskCall.pc # "call" /\ maskCall.mType = MaskEmail
        /\ ~(Len(maskCall.in) > 0 /\ Head(maskCall.in) = "@" /\ CountOf(maskCall.in, "@") = 1)) =>
        maskCall.out = Ok(ClaimedEmail(maskCall.in))

\* the phone masking the claim describes
ClaimedPhone(s) ==
    IF Len(s) < 8 THEN Stars3 ELSE FirstN(s, 4) \o Stars7 \o LastN(s, 3)

\* C11: a phone input shorter than 8 is masked to "***"; one of 8 or more to
\* its first 4 characters, seven asterisks and its last 3 characters, 14
\* characters in all (lengths as Go's len counts them; the inputs are ASCII).
C11_PhoneMasking ==
    (maskCall.pc # "call" /\ maskCall.mType = MaskPhone) =>
        /\ maskCall.out = Ok(ClaimedPhone(maskCall.in))
        /\ Len(maskCall.in) >= 8 => Len(maskCall.out.s) = 14

\* an input of exactly 8 characters, one of them a space, was masked
C11_Witness ==
    /\ maskCall.pc = "returned"
    /\ maskCall.mType = MaskPhone
    /\ Len(maskCall.in) = 8
    /\ \E i \in 1..8 : maskCall.in[i] = " "
    /\ maskCall.out.s = FirstN(maskCall.in, 4) \o Stars7 \o LastN(maskCall.in, 3)

\* s without its spaces
NoSpaces(s) == SelectSeq(s, LAMBDA c : c # " ")

\* the card masking the claim describes
ClaimedCard(s) ==
    IF Len(NoSpaces(s)) < 12 THEN CardFallback
    ELSE FirstN(NoSpaces(s), 4) \o <<" ", "*", "*", "*", "*", " ", "*", "*", "*", "*", " ">>
         \o LastN(NoSpaces(s), 4)

\* C12: a card input is masked as its characters other than spaces decide:
\* fewer than 12 of them give the fixed fallback, which holds asterisks and
\* spaces only; otherwise the first 4 of them, " **** **** " and the last 4;
\* the input and the input without its spaces are masked alike.
C12_CardMasking ==
    (maskCall.pc # "call" /\ maskCall.mType = MaskCard) =>
        /\ maskCall.out = Ok(ClaimedCard(maskCall.in))
        /\ maskCall.out = Mask(NoSpaces(maskCall.in), MaskCard)
        /\ Len(NoSpaces(maskCall.in)) < 12 =>
              \A i \in 1..Len(maskCall.out.s) : maskCall.out.s[i] \in {"*", " "}

\* an input of 12 characters and 3 spaces was masked to its first and last 4
C12_Witness ==
    /\ maskCall.pc = "returned"
    /\ maskCall.mType = MaskCard
    /\ Len(maskCall.in) = 15
    /\ Len(NoSpaces(maskCall.in)) = 12
    /\ maskCall.out.s = <<"0", "1", "2", "3", " ", "*", "*", "*", "*", " ", "*", "*", "*", "*", " ",
                          "8", "9", "A", "B">>

====
